---- MODULE Spec2Model ----
(***************************************************************************)
(* Direct PCI configuration access through the i386 I/O ports              *)
(* (lib/i386-ports.c): the permission gate shared by both mechanisms, the  *)
(* Type-1 and Type-2 read/write/detect handlers, and the sanity check.     *)
(* The per-OS port primitives (intel_setup_io, intel_io_lock, intel_outl,  *)
(* ...) and the machine behind the ports are not part of that file; they   *)
(* are modelled after the specification's description of the platform      *)
(* port-I/O primitive and of a simulated port backend.                     *)
(***************************************************************************)
EXTENDS Integers, Sequences, FiniteSets, TLC

(***************************************************************************)
(* Integer arithmetic of the C code.  Port numbers, offsets and the fields *)
(* of struct pci_dev are small non-negative integers.  A value that goes   *)
(* through a port or a buffer (u8, u16, u32: up to 0xFFFFFFFF) is a word:  *)
(* the sequence of its base-256 digits, least significant first, as long   *)
(* as its C type is wide.                                                   *)
(***************************************************************************)
RECURSIVE BitAnd(_, _)
\* a & b on non-negative integers
BitAnd(a, b) ==
  IF a = 0 \/ b = 0 THEN 0
  ELSE (IF a % 2 = 1 /\ b % 2 = 1 THEN 1 ELSE 0) + 2 * BitAnd(a \div 2, b \div 2)

RECURSIVE BitOr(_, _)
\* a | b on non-negative integers
BitOr(a, b) ==
  IF a = 0 THEN b
  ELSE IF b = 0 THEN a
  ELSE (IF a % 2 = 1 \/ b % 2 = 1 THEN 1 ELSE 0) + 2 * BitOr(a \div 2, b \div 2)

RECURSIVE Pow2(_)
Pow2(n) == IF n = 0 THEN 1 ELSE 2 * Pow2(n - 1)

\* a << n on small integers (no bit is lost)
Shl(a, n) == a * Pow2(n)

\* The word of w digits of the non-negative integer v (v modulo 256^w)
W(v, w) == [i \in 1..w |-> (v \div Pow2(8 * (i - 1))) % 256]

\* A word cut or zero-extended to w digits (a conversion between unsigned types)
Cast(a, w) == [i \in 1..w |-> IF i <= Len(a) THEN a[i] ELSE 0]

\* a | b and a & b on words of equal length
WOr(a, b) == [i \in 1..Len(a) |-> BitOr(a[i], b[i])]
WAnd(a, b) == [i \in 1..Len(a) |-> BitAnd(a[i], b[i])]

\* a << n on a word, in the width of the word
WShl(a, n) ==
  LET q == n \div 8
      r == n % 8
      dig(j) == IF j >= 1 /\ j <= Len(a) THEN a[j] ELSE 0
  IN  [i \in 1..Len(a) |->
         ((dig(i - q) * Pow2(r)) % 256) + ((dig(i - q - 1) * Pow2(r)) \div 256)]

\* Bit n of a word
WBit(a, n) == (a[n \div 8 + 1] \div Pow2(n % 8)) % 2

\* ~3 as a 32-bit word
Not3 == <<252, 255, 255, 255>>

\* Reverse of a byte sequence
Rev(bs) == [i \in 1..Len(bs) |-> bs[Len(bs) + 1 - i]]

\* The word a C object holds when its memory is the bytes bs
HostVal(bs, bigEndian) == IF bigEndian THEN Rev(bs) ELSE bs
\* The memory bytes of a C object holding the word v
HostBytes(v, bigEndian) == IF bigEndian THEN Rev(v) ELSE v
\* cpu_to_le16/32 and le16/32_to_cpu: a byte swap of the value on a big-endian host
cpu_to_le(v, bigEndian) == IF bigEndian THEN Rev(v) ELSE v
le_to_cpu(v, bigEndian) == IF bigEndian THEN Rev(v) ELSE v

(***************************************************************************)
(* Port numbers and register values used by the file.                      *)
(***************************************************************************)
PortCF8 == 3320          \* 0xCF8  address register / Type-2 command register
PortCFA == 3322          \* 0xCFA  Type-2 bus-select (forward) register
PortCFB == 3323          \* 0xCFB  control register
PortCFC == 3324          \* 0xCFC  Type-1 data window
PortC000 == 49152        \* 0xC000 Type-2 window base
Enable1 == <<0, 0, 0, 128>>   \* 0x80000000 as a 32-bit word
KeyF0 == 240             \* 0xF0
MaxPos == 256            \* first offset outside configuration space

\* Offsets and values of pci/header.h used by the sanity check
PCI_VENDOR_ID == 0
PCI_CLASS_DEVICE == 10
PCI_CLASS_BRIDGE_HOST == 1536     \* 0x0600
PCI_CLASS_DISPLAY_VGA == 768      \* 0x0300
PCI_VENDOR_ID_INTEL == 32902      \* 0x8086
PCI_VENDOR_ID_COMPAQ == 3601      \* 0x0e11
NoDevice == 65535                 \* 0xFFFF, what an empty slot reads as

\* PCI_DEVFN(dev, func) of pci/header.h
PCI_DEVFN(dev, func) == BitOr(Shl(BitAnd(dev, 31), 3), BitAnd(func, 7))

(***************************************************************************)
(* The machine behind the ports: the four byte registers 0xCF8..0xCFB, the *)
(* Type-1 data window 0xCFC..0xCFF (open while bit 31 of the address       *)
(* register is set), the Type-2 window 0xC000..0xCFFF (open while the key  *)
(* nibble of the command register is non-zero), both onto one             *)
(* configuration memory, and plain byte latches at every other port.       *)
(* cfg.present = FALSE is a machine without any of this: reads give 0xFF   *)
(* and writes are dropped.                                                  *)
(***************************************************************************)
Reg32(hw) == hw.regs

\* Key of a configuration byte: (bus << 16) | (dev << 11) | (func << 8) | reg
CfgKey(bus, dev, func, reg) == bus * 65536 + dev * 2048 + func * 256 + reg

\* The storage cell a port byte access reaches
PortLoc(hw, port) ==
  IF port \in PortCF8..PortCFB THEN <<"reg", port - PortCF8>>
  ELSE IF port \in PortCFC..(PortCFC + 3) /\ hw.regs[4] >= 128
    THEN <<"cfg", CfgKey(hw.regs[3], hw.regs[2] \div 8, hw.regs[2] % 8, BitAnd(hw.regs[1], 252))
                  + (port - PortCFC)>>
  ELSE IF port \in PortC000..(PortC000 + 4095) /\ hw.regs[1] \div 16 # 0
    THEN <<"cfg", CfgKey(hw.regs[3], (port \div 256) % 16, (hw.regs[1] \div 2) % 8, port % 256)>>
  ELSE <<"port", port>>

\* A profile is the set of populated slots of bus 0, function 0, each
\* [slot, class, vendor]; every other slot reads as 0xFFFF
SlotOf(profile, n) ==
  IF \E e \in profile : e.slot = n
  THEN CHOOSE e \in profile : e.slot = n
  ELSE [slot |-> n, class |-> NoDevice, vendor |-> NoDevice]

\* What a cell holds before anything was written to it
DefaultByte(cfg, loc) ==
  IF loc[1] = "cfg" /\ loc[2] \div 2048 \in 0..31 /\ loc[2] % 2048 \in 0..255
  THEN LET slot == SlotOf(cfg.profile, loc[2] \div 2048)
           reg  == loc[2] % 256
       IN  IF reg \in {PCI_VENDOR_ID, PCI_VENDOR_ID + 1}
             THEN W(slot.vendor, 2)[reg - PCI_VENDOR_ID + 1]
           ELSE IF reg \in {PCI_CLASS_DEVICE, PCI_CLASS_DEVICE + 1}
             THEN W(slot.class, 2)[reg - PCI_CLASS_DEVICE + 1]
           ELSE 255
  ELSE 255

GetByte(cfg, hw, port) ==
  LET loc == PortLoc(hw, port)
  IN  IF ~cfg.present THEN 255
      ELSE IF loc[1] = "reg" THEN hw.regs[loc[2] + 1]
      ELSE IF loc \in DOMAIN hw.store THEN hw.store[loc]
      ELSE DefaultByte(cfg, loc)

\* A port read of w bytes at port: the bytes port..port+w-1, least significant first
PortIn(cfg, hw, port, w) == [i \in 1..w |-> GetByte(cfg, hw, port + i - 1)]

\* A port write of the w-digit word val at port
PortOut(cfg, hw, val, port, w) ==
  LET locs == [i \in 1..w |-> PortLoc(hw, port + i - 1)]
      hit(loc) == CHOOSE i \in 1..w : locs[i] = loc
      cells == {locs[i] : i \in {j \in 1..w : locs[j][1] # "reg"}}
  IN  IF ~cfg.present THEN hw
      ELSE [regs  |-> [k \in 1..4 |->
                        IF \E i \in 1..w : locs[i] = <<"reg", k - 1>>
                        THEN val[hit(<<"reg", k - 1>>)]
                        ELSE hw.regs[k]],
            store |-> [loc \in DOMAIN hw.store \cup cells |->
                        IF loc \in cells THEN val[hit(loc)]
                        ELSE hw.store[loc]]]

(***************************************************************************)
(* The platform primitives of i386-io-<os>.h, over the machine context     *)
(*   m = [cfg, hw, lock, depth, hung, trace, nlock, nblock]                *)
(* cfg: the platform (present, profile, reentrant, bigEndian), fixed;      *)
(* hw: the port backend; lock, depth: owner (0: free) and nesting depth of *)
(* the process-wide I/O lock; hung: the threads blocked for ever on the    *)
(* lock they hold themselves; trace, nlock, nblock: the port instructions, *)
(* lock acquisitions and block-helper calls of the handler call under way. *)
(* A hung thread executes nothing more.                                    *)
(***************************************************************************)
intel_io_lock(m, t) ==
  IF t \in m.hung THEN m
  ELSE IF m.lock = 0 THEN [m EXCEPT !.lock = t, !.depth = 1, !.nlock = @ + 1]
  ELSE IF m.lock = t /\ m.cfg.reentrant
    THEN [m EXCEPT !.depth = @ + 1, !.nlock = @ + 1]
  ELSE [m EXCEPT !.hung = @ \cup {t}]

intel_io_unlock(m, t) ==
  IF t \in m.hung THEN m
  ELSE IF m.depth > 1 THEN [m EXCEPT !.depth = @ - 1]
  ELSE [m EXCEPT !.depth = 0, !.lock = 0]

PortInstr(t, dir, w, port, val) == [t |-> t, dir |-> dir, w |-> w, port |-> port, val |-> val]

intel_out(m, t, val, port, w) ==
  IF t \in m.hung THEN m
  ELSE [m EXCEPT !.hw = PortOut(m.cfg, m.hw, Cast(val, w), port, w),
                 !.trace = Append(@, PortInstr(t, "out", w, port, Cast(val, w)))]
intel_outb(m, t, val, port) == intel_out(m, t, val, port, 1)
intel_outw(m, t, val, port) == intel_out(m, t, val, port, 2)
intel_outl(m, t, val, port) == intel_out(m, t, val, port, 4)

intel_in(m, t, port, w) ==
  IF t \in m.hung THEN m
  ELSE [m EXCEPT !.trace = Append(@, PortInstr(t, "in", w, port, PortIn(m.cfg, m.hw, port, w)))]
intel_inb(m, t, port) == intel_in(m, t, port, 1)
intel_inw(m, t, port) == intel_in(m, t, port, 2)
intel_inl(m, t, port) == intel_in(m, t, port, 4)

\* The value the port read just executed returned
Got(m) == IF m.trace = <<>> THEN <<>> ELSE m.trace[Len(m.trace)].val

\* intel_setup_io: the attempt to obtain the I/O privilege; grant (1 or 0) is
\* what the operating system answers
intel_setup_io(plat, grant) ==
  [plat EXCEPT !.setupCalls = @ + 1, !.grants = @ + grant, !.priv = (grant = 1)]

\* intel_cleanup_io: gives the I/O privilege back
intel_cleanup_io(plat) ==
  [plat EXCEPT !.cleanupCalls = @ + 1, !.priv = FALSE]

(***************************************************************************)
(* The permission gate, over g = [en, plat]: en is conf12_io_enabled       *)
(* (-1 = haven't tried, 0 = failed, 1 = succeeded).                        *)
(***************************************************************************)
\* Mutant: the acquisition is attempted on every call
conf12_setup_io_retry(g, grant) ==
  [en |-> grant, plat |-> intel_setup_io(g.plat, grant)]

conf12_setup_io(g, grant) ==
  IF g.en < 0
  THEN [en |-> grant, plat |-> intel_setup_io(g.plat, grant)]
  ELSE g

\* Mutant: the error callback is called on success instead of on failure
conf12_init_inverted(g, grant) ==
  [g |-> conf12_setup_io(g, grant), error |-> (conf12_setup_io(g, grant).en # 0)]

\* Mutant: conf12_init attempts the acquisition anew instead of using the gate
conf12_init_reacquire(g, grant) ==
  [g |-> conf12_setup_io_retry(g, grant), error |-> (grant = 0)]

\* conf12_init: the gate afterwards, and whether a->error was called
conf12_init(g, grant) ==
  LET g1 == conf12_setup_io(g, grant)
  IN  [g |-> g1, error |-> (g1.en = 0)]

\* Mutant: the privilege is released but the flag stays set
conf12_cleanup_noreset(g) ==
  IF g.en > 0
  THEN [en |-> g.en, plat |-> intel_cleanup_io(g.plat)]
  ELSE g

\* Mutant: the test is >= 0, so a denied gate is released and reset too
conf12_cleanup_any(g) ==
  IF g.en >= 0
  THEN [en |-> -1, plat |-> intel_cleanup_io(g.plat)]
  ELSE g

\* Mutant: the flag is reset without giving the privilege back
conf12_cleanup_norelease(g) ==
  IF g.en > 0
  THEN [en |-> -1, plat |-> g.plat]
  ELSE g

conf12_cleanup(g) ==
  IF g.en > 0
  THEN [en |-> -1, plat |-> intel_cleanup_io(g.plat)]
  ELSE g

(***************************************************************************)
(* A handler's port sequence is a list of steps, each one call of a        *)
(* platform primitive: Lock, Unlock, Out(w, val, port), In(w, port).       *)
(* Exec runs a list to its end on behalf of thread t.                      *)
(***************************************************************************)
Lock == [k |-> "lock", w |-> 0, port |-> 0, val |-> <<>>]
Unlock == [k |-> "unlock", w |-> 0, port |-> 0, val |-> <<>>]
Out(w, val, port) == [k |-> "out", w |-> w, port |-> port, val |-> val]
In(w, port) == [k |-> "in", w |-> w, port |-> port, val |-> <<>>]

Step(m, t, op) ==
  CASE op.k = "lock"   -> intel_io_lock(m, t)
    [] op.k = "unlock" -> intel_io_unlock(m, t)
    [] op.k = "out"    -> intel_out(m, t, op.val, op.port, op.w)
    [] op.k = "in"     -> intel_in(m, t, op.port, op.w)

RECURSIVE Exec(_, _, _)
Exec(m, t, ops) == IF ops = <<>> THEN m ELSE Exec(Step(m, t, Head(ops)), t, Tail(ops))

(***************************************************************************)
(* Read and write of both mechanisms.  d = [domain, bus, dev, func] is the *)
(* struct pci_dev, buf the caller's buffer as a sequence of bytes.  Each   *)
(* handler yields [m, res, buf]: the machine context afterwards, the       *)
(* return value and the buffer afterwards.                                 *)
(***************************************************************************)
Ret(m, res, buf) == [m |-> m, res |-> res, buf |-> buf]

\* buf with its first bytes replaced by bs
SetBuf(buf, bs) == [i \in 1..Len(buf) |-> IF i <= Len(bs) THEN bs[i] ELSE buf[i]]

SizedLen(len) == len \in {1, 2, 4}

\* Mutant: the sized reads store the port value without cpu_to_le16/32
ReadStore_noconv(buf, v, len, be) == SetBuf(buf, HostBytes(v, be))

\* What the switch of a read stores in buf for the word v a port read returned:
\* buf[0] = v;  ((u16 *) buf)[0] = cpu_to_le16(v);  ((u32 *) buf)[0] = cpu_to_le32(v)
ReadStore(buf, v, len, be) ==
  IF len = 1 THEN SetBuf(buf, v)
  ELSE SetBuf(buf, HostBytes(cpu_to_le(v, be), be))

\* Mutant: the sized writes hand the buffer's word to the port without le16/32_to_cpu
WriteLoad_noconv(buf, len, be) ==
  IF len = 1 THEN <<buf[1]>> ELSE HostVal(SubSeq(buf, 1, len), be)

\* What the switch of a write hands to the port write:
\* buf[0];  le16_to_cpu(((u16 *) buf)[0]);  le32_to_cpu(((u32 *) buf)[0])
WriteLoad(buf, len, be) ==
  IF len = 1 THEN <<buf[1]>>
  ELSE le_to_cpu(HostVal(SubSeq(buf, 1, len), be), be)

\* int addr = 0xcfc + (pos&3)
Conf1DataPort(pos) == PortCFC + BitAnd(pos, 3)

\* Mutant: the offset goes into the address unmasked
Conf1Address_nomask(d, pos) ==
  WOr(WOr(WOr(Enable1, WShl(W(BitAnd(d.bus, 255), 4), 16)),
          WShl(W(PCI_DEVFN(d.dev, d.func), 4), 8)),
      W(pos, 4))

\* Mutant: the bus number is shifted by 8 instead of 16
Conf1Address_bus8(d, pos) ==
  WOr(WOr(WOr(Enable1, WShl(W(BitAnd(d.bus, 255), 4), 8)),
          WShl(W(PCI_DEVFN(d.dev, d.func), 4), 8)),
      WAnd(W(pos, 4), Not3))

\* 0x80000000 | ((d->bus & 0xff) << 16) | (PCI_DEVFN(d->dev, d->func) << 8) | (pos&~3)
Conf1Address(d, pos) ==
  WOr(WOr(WOr(Enable1, WShl(W(BitAnd(d.bus, 255), 4), 16)),
          WShl(W(PCI_DEVFN(d.dev, d.func), 4), 8)),
      WAnd(W(pos, 4), Not3))

\* if (d->domain || pos >= 256) return 0;
Conf1Rejects(d, pos) == d.domain # 0 \/ pos >= MaxPos

\* Mutant: the sequence is not bracketed by intel_io_lock/intel_io_unlock
conf1_read_seq_nolock(d, pos, len) ==
  <<Out(4, Conf1Address(d, pos), PortCF8), In(len, Conf1DataPort(pos))>>

\* The locked port sequence of a sized conf1_read
conf1_read_seq(d, pos, len) ==
  <<Lock, Out(4, Conf1Address(d, pos), PortCF8), In(len, Conf1DataPort(pos)), Unlock>>

\* The locked port sequence of a sized conf1_write
conf1_write_seq(d, pos, buf, len, be) ==
  <<Lock, Out(4, Conf1Address(d, pos), PortCF8),
    Out(len, WriteLoad(buf, len, be), Conf1DataPort(pos)), Unlock>>

\* int addr = 0xc000 | (d->dev << 8) | pos
Conf2DataPort(d, pos) == BitOr(BitOr(PortC000, Shl(d.dev, 8)), pos)

\* (d->func << 1) | 0xf0
Conf2Command(d) == BitOr(Shl(d.func, 1), KeyF0)

\* Mutant: the device test is off by one (d->dev > 16)
Conf2Rejects_off1(d, pos) == d.domain # 0 \/ pos >= MaxPos \/ d.dev > 16

\* if (d->domain || pos >= 256) return 0;  if (d->dev >= 16) return 0;
Conf2Rejects(d, pos) == d.domain # 0 \/ pos >= MaxPos \/ d.dev >= 16

\* Mutant: the command register is not written back to 0 after the transfer
conf2_read_seq_noclose(d, pos, len) ==
  <<Lock, Out(1, W(Conf2Command(d), 1), PortCF8), Out(1, W(d.bus, 1), PortCFA),
    In(len, Conf2DataPort(d, pos)), Unlock>>

\* The locked port sequence of a sized conf2_read
conf2_read_seq(d, pos, len) ==
  <<Lock, Out(1, W(Conf2Command(d), 1), PortCF8), Out(1, W(d.bus, 1), PortCFA),
    In(len, Conf2DataPort(d, pos)), Out(1, W(0, 1), PortCF8), Unlock>>

\* The locked port sequence of a sized conf2_write
conf2_write_seq(d, pos, buf, len, be) ==
  <<Lock, Out(1, W(Conf2Command(d), 1), PortCF8), Out(1, W(d.bus, 1), PortCFA),
    Out(len, WriteLoad(buf, len, be), Conf2DataPort(d, pos)), Out(1, W(0, 1), PortCF8), Unlock>>

\* The value the sized read of a finished read sequence returned
ReadGot(m) == CHOOSE v \in {m.trace[i].val : i \in {j \in 1..Len(m.trace) :
                   m.trace[j].dir = "in" /\ \A k \in (j + 1)..Len(m.trace) : m.trace[k].dir # "in"}} : TRUE

\* A read call that is past its checks and has run the sequence seq
ReadDone(m1, buf, len) == Ret(m1, 1, ReadStore(buf, ReadGot(m1), len, m1.cfg.bigEndian))

RECURSIVE BlockOp(_, _, _, _, _, _, _, _, _)

conf1_read(m, t, d, pos, buf, len) ==
  IF Conf1Rejects(d, pos) THEN Ret(m, 0, buf)
  ELSE IF ~SizedLen(len)
    THEN BlockOp(TRUE, 1, [m EXCEPT !.nblock = @ + 1], t, d, pos, buf, len, 0)
  ELSE ReadDone(Exec(m, t, conf1_read_seq(d, pos, len)), buf, len)

conf1_write(m, t, d, pos, buf, len) ==
  IF Conf1Rejects(d, pos) THEN Ret(m, 0, buf)
  ELSE IF ~SizedLen(len)
    THEN BlockOp(FALSE, 1, [m EXCEPT !.nblock = @ + 1], t, d, pos, buf, len, 0)
  ELSE Ret(Exec(m, t, conf1_write_seq(d, pos, buf, len, m.cfg.bigEndian)), 1, buf)

conf2_read(m, t, d, pos, buf, len) ==
  IF Conf2Rejects(d, pos) THEN Ret(m, 0, buf)
  ELSE IF ~SizedLen(len)
    THEN BlockOp(TRUE, 2, [m EXCEPT !.nblock = @ + 1], t, d, pos, buf, len, 0)
  ELSE ReadDone(Exec(m, t, conf2_read_seq(d, pos, len)), buf, len)

conf2_write(m, t, d, pos, buf, len) ==
  IF Conf2Rejects(d, pos) THEN Ret(m, 0, buf)
  ELSE IF ~SizedLen(len)
    THEN BlockOp(FALSE, 2, [m EXCEPT !.nblock = @ + 1], t, d, pos, buf, len, 0)
  ELSE Ret(Exec(m, t, conf2_write_seq(d, pos, buf, len, m.cfg.bigEndian)), 1, buf)

\* The single-byte call the block helper makes through the method table mech
\* (1: pm_intel_conf1, 2: pm_intel_conf2): the handler's checks, then its
\* sized sequence
ByteCall(isRead, mech, m, t, d, pos, one) ==
  IF (mech = 1 /\ Conf1Rejects(d, pos)) \/ (mech = 2 /\ Conf2Rejects(d, pos)) THEN Ret(m, 0, one)
  ELSE IF isRead
    THEN ReadDone(Exec(m, t, IF mech = 1 THEN conf1_read_seq(d, pos, 1)
                                         ELSE conf2_read_seq(d, pos, 1)), one, 1)
  ELSE Ret(Exec(m, t, IF mech = 1 THEN conf1_write_seq(d, pos, one, 1, m.cfg.bigEndian)
                                  ELSE conf2_write_seq(d, pos, one, 1, m.cfg.bigEndian)), 1, one)

\* pci_generic_block_read/write from byte i on: one single-byte call each,
\* stopping at the first call that declines
BlockNext(isRead, mech, t, d, pos, buf, len, i, r) ==
  IF r.res = 0 THEN Ret(r.m, 0, [buf EXCEPT ![i + 1] = r.buf[1]])
  ELSE BlockOp(isRead, mech, r.m, t, d, pos, [buf EXCEPT ![i + 1] = r.buf[1]], len, i + 1)

BlockOp(isRead, mech, m, t, d, pos, buf, len, i) ==
  IF i >= len THEN Ret(m, 1, buf)
  ELSE BlockNext(isRead, mech, t, d, pos, buf, len, i,
                 ByteCall(isRead, mech, m, t, d, pos + i, <<buf[i + 1]>>))

\* m->read of the method table mech
MethodRead(mech, m, t, d, pos, buf, len) ==
  IF mech = 1 THEN conf1_read(m, t, d, pos, buf, len) ELSE conf2_read(m, t, d, pos, buf, len)

(***************************************************************************)
(* The sanity check and the two detect handlers.                           *)
(***************************************************************************)
\* class == cpu_to_le16(PCI_CLASS_BRIDGE_HOST) || class == cpu_to_le16(PCI_CLASS_DISPLAY_VGA)
\* Mutant: only the host bridge class is accepted
ClassMatches_bridge(class, be) == class = cpu_to_le(W(PCI_CLASS_BRIDGE_HOST, 2), be)

ClassMatches(class, be) ==
  \/ class = cpu_to_le(W(PCI_CLASS_BRIDGE_HOST, 2), be)
  \/ class = cpu_to_le(W(PCI_CLASS_DISPLAY_VGA, 2), be)

\* vendor == cpu_to_le16(PCI_VENDOR_ID_INTEL) || vendor == cpu_to_le16(PCI_VENDOR_ID_COMPAQ)
VendorMatches(vendor, be) ==
  \/ vendor = cpu_to_le(W(PCI_VENDOR_ID_INTEL, 2), be)
  \/ vendor = cpu_to_le(W(PCI_VENDOR_ID_COMPAQ, 2), be)

SanityResult(m, res, dev) == [m |-> m, res |-> res, dev |-> dev]

RECURSIVE SanityLoop(_, _, _, _)

\* After the vendor read r2 of slot dev
SanityVendor(mech, t, dev, r2) ==
  IF r2.res # 0 /\ VendorMatches(HostVal(r2.buf, r2.m.cfg.bigEndian), r2.m.cfg.bigEndian)
  THEN SanityResult(r2.m, 1, dev)
  ELSE SanityLoop(mech, r2.m, t, dev + 1)

\* After the class read r1 of slot dev
SanityClass(mech, t, dev, r1) ==
  IF r1.res # 0 /\ ClassMatches(HostVal(r1.buf, r1.m.cfg.bigEndian), r1.m.cfg.bigEndian)
  THEN SanityResult(r1.m, 1, dev)
  ELSE SanityVendor(mech, t, dev,
         MethodRead(mech, r1.m, t, [domain |-> 0, bus |-> 0, dev |-> dev, func |-> 0],
                    PCI_VENDOR_ID, <<0, 0>>, 2))

\* The loop of intel_sanity_check from slot dev on: [m, res, dev], dev the
\* slot that matched (32 when none did)
SanityLoop(mech, m, t, dev) ==
  IF t \in m.hung \/ dev >= 32 THEN SanityResult(m, 0, dev)
  ELSE SanityClass(mech, t, dev,
         MethodRead(mech, m, t, [domain |-> 0, bus |-> 0, dev |-> dev, func |-> 0],
                    PCI_CLASS_DEVICE, <<0, 0>>, 2))

intel_sanity_check(mech, m, t) == SanityLoop(mech, m, t, 0)

DetectResult(m, g, res) == [m |-> m, g |-> g, res |-> res]

\* conf1_detect after the readback: m2 is the context with the readback as its
\* last port read, tmp the saved address register
Conf1Verdict(m3, t, g1, res) ==
  IF res # 0 THEN DetectResult(intel_sanity_check(1, m3, t).m, g1, intel_sanity_check(1, m3, t).res)
  ELSE DetectResult(m3, g1, 0)

Conf1Restore(m2, t, g1, tmp) ==
  Conf1Verdict(Exec(m2, t, <<Out(4, tmp, PortCF8), Unlock>>), t, g1,
               IF Got(m2) = Enable1 THEN 1 ELSE 0)

Conf1Probe(m1, t, g1) ==
  Conf1Restore(Exec(m1, t, <<Out(4, Enable1, PortCF8), In(4, PortCF8)>>), t, g1, Got(m1))

\* Mutant: the probe is run whatever conf12_setup_io returned
conf1_detect_nogate(m, t, g, grant) ==
  Conf1Probe(Exec(m, t, <<Lock, Out(1, W(1, 1), PortCFB), In(4, PortCF8)>>),
             t, conf12_setup_io(g, grant))

\* conf1_detect: [m, g, res]
conf1_detect(m, t, g, grant) ==
  IF conf12_setup_io(g, grant).en = 0 THEN DetectResult(m, conf12_setup_io(g, grant), 0)
  ELSE Conf1Probe(Exec(m, t, <<Lock, Out(1, W(1, 1), PortCFB), In(4, PortCF8)>>),
                  t, conf12_setup_io(g, grant))

\* conf2_detect after inb(0xCF8): m1 has it as its last port read
Conf2Sane(sc, t, g1) == DetectResult(intel_io_unlock(sc.m, t), g1, sc.res)

Conf2Second(m2, t, g1) ==
  IF Got(m2) # W(0, 1) THEN DetectResult(intel_io_unlock(m2, t), g1, 0)
  ELSE Conf2Sane(intel_sanity_check(2, m2, t), t, g1)

Conf2First(m1, t, g1) ==
  IF Got(m1) # W(0, 1) THEN DetectResult(intel_io_unlock(m1, t), g1, 0)
  ELSE Conf2Second(intel_in(m1, t, PortCFA, 1), t, g1)

\* conf2_detect: [m, g, res]
conf2_detect(m, t, g, grant) ==
  IF conf12_setup_io(g, grant).en = 0 THEN DetectResult(m, conf12_setup_io(g, grant), 0)
  ELSE Conf2First(Exec(m, t, <<Lock, Out(1, W(0, 1), PortCFB), Out(1, W(0, 1), PortCF8),
                               Out(1, W(0, 1), PortCFA), In(1, PortCF8)>>),
                  t, conf12_setup_io(g, grant))

(***************************************************************************)
(* State.                                                                  *)
(***************************************************************************)
VARIABLES
  conf12_io_enabled,  \* the static of that name: -1, 0 or 1
  plat,               \* the platform's side of the gate: [setupCalls, grants, cleanupCalls,
                      \* priv]: calls of intel_setup_io, those that succeeded, calls of
                      \* intel_cleanup_io, and whether the I/O privilege is held
  m,                  \* the machine context (see the platform primitives)
  errorCalls,         \* how often a->error was called
  sess,               \* per logical session (struct pci_access): [st, mech, rel], rel:
                      \* a conf12_cleanup was called since the session's detect
  last,               \* the handler call made last: [s, op, mech, res, error, req, buf]
  xfer,               \* transfer specification: [req, prev], the request under test
                      \* and the call made before the last one
  thr                 \* thread specification: per thread, the call it is executing

vars == <<conf12_io_enabled, plat, m, errorCalls, sess, last, xfer, thr>>

\* Bounds of the model
NSessions == 2        \* logical sessions sharing the process-wide gate
MaxSetup == 2         \* cap on the calls of intel_setup_io in one behaviour

Sessions == 1..NSessions
MainThread == 1

\* The gate as the operators above take it
Gate == [en |-> conf12_io_enabled, plat |-> plat]

\* A handler call starts with an empty record of its own port traffic
Fresh(mm) == [mm EXCEPT !.trace = <<>>, !.nlock = 0, !.nblock = 0]

\* Profiles of bus 0
Slot(n, class, vendor) == [slot |-> n, class |-> class, vendor |-> vendor]
EmptyBus == {}
BridgeAt0 == {Slot(0, PCI_CLASS_BRIDGE_HOST, PCI_VENDOR_ID_INTEL)}

Cfg(present, profile, reentrant, bigEndian) ==
  [present |-> present, profile |-> profile, reentrant |-> reentrant, bigEndian |-> bigEndian]

\* The machine context at process start
Machine(cfg, regs) ==
  [cfg |-> cfg, hw |-> [regs |-> regs, store |-> <<>>],
   lock |-> 0, depth |-> 0, hung |-> {}, trace |-> <<>>, nlock |-> 0, nblock |-> 0]

GateCfgs ==
  {Cfg(TRUE, BridgeAt0, r, FALSE) : r \in BOOLEAN} \cup {Cfg(FALSE, EmptyBus, FALSE, FALSE)}

Dev(domain, bus, dev, func) == [domain |-> domain, bus |-> bus, dev |-> dev, func |-> func]
Req(d, pos, len, buf) == [d |-> d, pos |-> pos, len |-> len, buf |-> buf]
NoReq == Req(Dev(0, 0, 0, 0), 0, 0, <<>>)

\* What the sessions of the gate specification read and write
GateReqs ==
  {Req(Dev(0, 0, 0, 0), 0, 2, <<52, 18>>),
   Req(Dev(1, 0, 0, 0), 0, 4, <<1, 2, 3, 4>>)}

NoCall == [s |-> 0, op |-> "none", mech |-> 0, res |-> 0, error |-> FALSE, req |-> NoReq, buf |-> <<>>]
Call(s, op, mech, res, error, rq, buf) ==
  [s |-> s, op |-> op, mech |-> mech, res |-> res, error |-> error, req |-> rq, buf |-> buf]

NoXfer == [req |-> NoReq, prev |-> "none"]

Init ==
  /\ conf12_io_enabled = -1
  /\ plat = [setupCalls |-> 0, grants |-> 0, cleanupCalls |-> 0, priv |-> FALSE]
  /\ \E cfg \in GateCfgs : m = Machine(cfg, <<0, 0, 0, 0>>)
  /\ errorCalls = 0
  /\ sess = [s \in Sessions |-> [st |-> "UNPROBED", mech |-> 0, rel |-> FALSE]]
  /\ last = NoCall
  /\ xfer = NoXfer
  /\ thr = <<>>

\* The process runs (no handler hangs) and one more acquisition attempt fits the cap
Running == m.hung = {}
MayAcquire == conf12_io_enabled >= 0 \/ plat.setupCalls < MaxSetup

\* The detect call of a session: the mechanism is kept when it reports presence
DetectDone(s, mech, r) ==
  /\ conf12_io_enabled' = r.g.en
  /\ plat' = r.g.plat
  /\ m' = r.m
  /\ sess' = IF r.res # 0 /\ MainThread \notin r.m.hung
               THEN [sess EXCEPT ![s] = [st |-> "ACTIVE", mech |-> mech, rel |-> FALSE]]
               ELSE sess
  /\ last' = Call(s, "detect", mech, r.res, FALSE, NoReq, <<>>)
  /\ UNCHANGED <<errorCalls, xfer, thr>>

Conf1Detect(s) ==
  /\ Running /\ MayAcquire
  /\ sess[s].st = "UNPROBED"
  /\ \E grant \in {0, 1} :
       \E r \in {conf1_detect(Fresh(m), MainThread, Gate, grant)} : DetectDone(s, 1, r)

Conf2Detect(s) ==
  /\ Running /\ MayAcquire
  /\ sess[s].st = "UNPROBED"
  /\ \E grant \in {0, 1} :
       \E r \in {conf2_detect(Fresh(m), MainThread, Gate, grant)} : DetectDone(s, 2, r)

Conf12Init(s) ==
  /\ Running /\ MayAcquire
  /\ sess[s].st = "ACTIVE"
  /\ \E grant \in {0, 1} :
       LET r == conf12_init(Gate, grant)
       IN  /\ conf12_io_enabled' = r.g.en
           /\ plat' = r.g.plat
           /\ errorCalls' = IF r.error THEN errorCalls + 1 ELSE errorCalls
           /\ sess' = [sess EXCEPT ![s].st = IF r.error THEN "FATAL" ELSE "READY"]
           /\ last' = Call(s, "init", sess[s].mech, 0, r.error, NoReq, <<>>)
           /\ m' = Fresh(m)
           /\ UNCHANGED <<xfer, thr>>

Conf12Cleanup(s) ==
  /\ Running
  /\ sess[s].st = "READY"
  /\ LET g1 == conf12_cleanup(Gate)
     IN  /\ conf12_io_enabled' = g1.en
         /\ plat' = g1.plat
  /\ sess' = [x \in Sessions |->
               IF x = s THEN [sess[x] EXCEPT !.st = "UNPROBED", !.mech = 0, !.rel = FALSE]
               ELSE [sess[x] EXCEPT !.rel = (sess[x].st # "UNPROBED")]]
  /\ last' = Call(s, "cleanup", sess[s].mech, 0, FALSE, NoReq, <<>>)
  /\ m' = Fresh(m)
  /\ UNCHANGED <<errorCalls, xfer, thr>>

\* A read or write call of a session that is READY
XferDone(s, op, mech, rq, r) ==
  /\ m' = r.m
  /\ last' = Call(s, op, mech, r.res, FALSE, rq, r.buf)
  /\ UNCHANGED <<conf12_io_enabled, plat, errorCalls, sess, xfer, thr>>

Conf1Read(s) ==
  /\ Running
  /\ sess[s].st = "READY" /\ sess[s].mech = 1
  /\ \E rq \in GateReqs :
       \E r \in {conf1_read(Fresh(m), MainThread, rq.d, rq.pos, rq.buf, rq.len)} :
         XferDone(s, "read", 1, rq, r)

Conf1Write(s) ==
  /\ Running
  /\ sess[s].st = "READY" /\ sess[s].mech = 1
  /\ \E rq \in GateReqs :
       \E r \in {conf1_write(Fresh(m), MainThread, rq.d, rq.pos, rq.buf, rq.len)} :
         XferDone(s, "write", 1, rq, r)

Conf2Read(s) ==
  /\ Running
  /\ sess[s].st = "READY" /\ sess[s].mech = 2
  /\ \E rq \in GateReqs :
       \E r \in {conf2_read(Fresh(m), MainThread, rq.d, rq.pos, rq.buf, rq.len)} :
         XferDone(s, "read", 2, rq, r)

Conf2Write(s) ==
  /\ Running
  /\ sess[s].st = "READY" /\ sess[s].mech = 2
  /\ \E rq \in GateReqs :
       \E r \in {conf2_write(Fresh(m), MainThread, rq.d, rq.pos, rq.buf, rq.len)} :
         XferDone(s, "write", 2, rq, r)

Next ==
  \E s \in Sessions :
    \/ Conf1Detect(s)
    \/ Conf2Detect(s)
    \/ Conf12Init(s)
    \/ Conf12Cleanup(s)
    \/ Conf1Read(s)
    \/ Conf1Write(s)
    \/ Conf2Read(s)
    \/ Conf2Write(s)

Spec == Init /\ [][Next]_vars

(***************************************************************************)
(* Specification SpecXfer: one session that is READY on one mechanism      *)
(* reads and writes one request, drawn at the start, in any order.         *)
(***************************************************************************)
\* Bytes the caller writes, and the buffer a read is handed
Pattern == <<52, 18, 86, 120>>
ZeroBuf(len) == [i \in 1..len |-> 0]
BufLen(len) == IF len < 4 THEN 4 ELSE len

XferDevs ==
  {Dev(0, 0, 0, 0), Dev(0, 1, 0, 0), Dev(0, 255, 31, 7), Dev(0, 2, 15, 3),
   Dev(0, 0, 16, 0), Dev(1, 0, 0, 0)}
XferLens == {1, 2, 3, 4}
\* every offset on one device both mechanisms accept, the edge offsets on all
EdgePos == {0, 1, 2, 3, 16, 252, 253, 254, 255, 256}
XferReqs ==
  {Req(Dev(0, 2, 15, 3), pos, len, Pattern) : pos \in 0..(MaxPos + 1), len \in XferLens} \cup
  {Req(d, pos, len, Pattern) : d \in XferDevs, pos \in EdgePos, len \in XferLens}
XferCfgs == {Cfg(TRUE, BridgeAt0, FALSE, be) : be \in BOOLEAN}

XInit ==
  /\ conf12_io_enabled = 1
  /\ plat = [setupCalls |-> 1, grants |-> 1, cleanupCalls |-> 0, priv |-> TRUE]
  /\ \E cfg \in XferCfgs : m = Machine(cfg, <<0, 0, 0, 0>>)
  /\ errorCalls = 0
  /\ \E mech \in {1, 2} :
       sess = [s \in Sessions |-> IF s = 1 THEN [st |-> "READY", mech |-> mech, rel |-> FALSE]
                                           ELSE [st |-> "UNPROBED", mech |-> 0, rel |-> FALSE]]
  /\ last = NoCall
  /\ \E rq \in XferReqs : xfer = [req |-> rq, prev |-> "none"]
  /\ thr = <<>>

XDone(op, mech, r) ==
  /\ m' = r.m
  /\ last' = Call(1, op, mech, r.res, FALSE, xfer.req, r.buf)
  /\ xfer' = [xfer EXCEPT !.prev = last.op]
  /\ UNCHANGED <<conf12_io_enabled, plat, errorCalls, sess, thr>>

XConf1Read ==
  /\ sess[1].mech = 1
  /\ \E r \in {conf1_read(Fresh(m), MainThread, xfer.req.d, xfer.req.pos,
                          ZeroBuf(Len(xfer.req.buf)), xfer.req.len)} : XDone("read", 1, r)

XConf1Write ==
  /\ sess[1].mech = 1
  /\ \E r \in {conf1_write(Fresh(m), MainThread, xfer.req.d, xfer.req.pos,
                           xfer.req.buf, xfer.req.len)} : XDone("write", 1, r)

XConf2Read ==
  /\ sess[1].mech = 2
  /\ \E r \in {conf2_read(Fresh(m), MainThread, xfer.req.d, xfer.req.pos,
                          ZeroBuf(Len(xfer.req.buf)), xfer.req.len)} : XDone("read", 2, r)

XConf2Write ==
  /\ sess[1].mech = 2
  /\ \E r \in {conf2_write(Fresh(m), MainThread, xfer.req.d, xfer.req.pos,
                           xfer.req.buf, xfer.req.len)} : XDone("write", 2, r)

XNext == XConf1Read \/ XConf1Write \/ XConf2Read \/ XConf2Write

SpecXfer == XInit /\ [][XNext]_vars

(***************************************************************************)
(* Specification SpecConc: threads, one session each, run detect, init,    *)
(* read and write concurrently.  A call's port sequence is executed one    *)
(* primitive at a time, so the calls of different threads interleave at    *)
(* every primitive; intel_io_lock waits while another thread holds the     *)
(* lock.  The gate's own accesses are not interleaved (the caller          *)
(* serialises them).  thr[t] is the call thread t is executing:            *)
(*   call, mech, req   the handler, its mechanism and the (device, offset, *)
(*                     length) it is reading or writing                    *)
(*   todo              the primitives not yet executed of the sequence at  *)
(*                     hand                                                *)
(*   stage, dev, tmp, res   where a detect call is, the slot its sanity    *)
(*                     check is at, and its locals                         *)
(*   val               what its last port read returned                    *)
(*   inside            a read/write has programmed the registers and not   *)
(*                     yet finished its transfer (Type 2: its closing      *)
(*                     write)                                              *)
(*   intruded          another thread issued a port instruction meanwhile  *)
(*   missed            its transfer reached a byte other than the one at   *)
(*                     its own (bus, device, function, offset)             *)
(*   done              read/write port sequences it has completed          *)
(***************************************************************************)
Threads == Sessions

Idle == [call |-> "idle", mech |-> 0, req |-> NoReq, todo |-> <<>>, stage |-> "none",
         dev |-> 0, tmp |-> <<>>, val |-> <<>>, res |-> 0,
         inside |-> FALSE, intruded |-> FALSE, missed |-> FALSE, done |-> FALSE]

\* What thread t reads and writes: a device of its own, so that the threads
\* program different addresses
ConcReqs(t) == {Req(Dev(0, t, 2, t), 6, 2, <<52, 18>>)}

\* Bus 0 with an Intel device of another class in slot 0: the sanity check
\* reads the class, then the vendor, and matches on the vendor
IntelAt0 == {Slot(0, 512, PCI_VENDOR_ID_INTEL)}
ConcCfgs == {Cfg(TRUE, IntelAt0, r, FALSE) : r \in BOOLEAN}

CInit ==
  /\ conf12_io_enabled = -1
  /\ plat = [setupCalls |-> 0, grants |-> 0, cleanupCalls |-> 0, priv |-> FALSE]
  /\ \E cfg \in ConcCfgs : m = Machine(cfg, <<0, 0, 0, 0>>)
  /\ errorCalls = 0
  /\ sess = [s \in Sessions |-> [st |-> "UNPROBED", mech |-> 0, rel |-> FALSE]]
  /\ last = NoCall
  /\ xfer = NoXfer
  /\ thr = [t \in Threads |-> Idle]

\* The context keeps the port instruction of the step just executed only
LastOnly(mm) == [mm EXCEPT !.trace = <<>>, !.nlock = 0, !.nblock = 0]

\* The call of c has returned
Return(c) == [Idle EXCEPT !.intruded = c.intruded, !.missed = c.missed, !.done = c.done]

\* The detect call c returns res; conf2_detect first leaves its critical section
Verdict(c, res) ==
  IF c.mech = 2
  THEN [c EXCEPT !.stage = "unlock", !.res = res, !.todo = <<Unlock>>]
  ELSE [c EXCEPT !.stage = "return", !.res = res, !.todo = <<>>]

SanityReq(dev, pos) == Req(Dev(0, 0, dev, 0), pos, 2, <<0, 0>>)

\* The port sequence of the m->read call for rq, none when the method declines
MethodReadSeq(mech, rq) ==
  IF mech = 1
  THEN (IF Conf1Rejects(rq.d, rq.pos) THEN <<>> ELSE conf1_read_seq(rq.d, rq.pos, rq.len))
  ELSE (IF Conf2Rejects(rq.d, rq.pos) THEN <<>> ELSE conf2_read_seq(rq.d, rq.pos, rq.len))

RECURSIVE SanityNext(_, _)
\* The sanity check of detect call c comes to the read of stage st ("class" or
\* "vendor") of slot c.dev: a read the method declines matches nothing
SanityNext(c, st) ==
  LET rq == SanityReq(c.dev, IF st = "class" THEN PCI_CLASS_DEVICE ELSE PCI_VENDOR_ID)
  IN  IF c.dev >= 32 THEN Verdict(c, 0)
      ELSE IF MethodReadSeq(c.mech, rq) # <<>>
        THEN [c EXCEPT !.stage = st, !.req = rq, !.todo = MethodReadSeq(c.mech, rq)]
      ELSE IF st = "class" THEN SanityNext(c, "vendor")
      ELSE SanityNext([c EXCEPT !.dev = @ + 1], "class")

\* The 16-bit variable a sanity read filled, for the word the port read returned
SanityVar(got, be) == HostVal(ReadStore(<<0, 0>>, got, 2, be), be)

\* Detect call c has executed the sequence at hand; be is the host's byte order
Advance(c, be) ==
  CASE c.stage = "save" ->
         [c EXCEPT !.stage = "readback", !.tmp = c.val,
                   !.todo = <<Out(4, Enable1, PortCF8), In(4, PortCF8)>>]
    [] c.stage = "readback" ->
         [c EXCEPT !.stage = "restore", !.res = IF c.val = Enable1 THEN 1 ELSE 0,
                   !.todo = <<Out(4, c.tmp, PortCF8), Unlock>>]
    [] c.stage = "restore" ->
         IF c.res # 0 THEN SanityNext([c EXCEPT !.dev = 0], "class") ELSE Verdict(c, 0)
    [] c.stage = "first" ->
         IF c.val # W(0, 1) THEN Verdict(c, 0)
         ELSE [c EXCEPT !.stage = "second", !.todo = <<In(1, PortCFA)>>]
    [] c.stage = "second" ->
         IF c.val # W(0, 1) THEN Verdict(c, 0)
         ELSE SanityNext([c EXCEPT !.dev = 0], "class")
    [] c.stage = "class" ->
         IF ClassMatches(SanityVar(c.val, be), be) THEN Verdict(c, 1)
         ELSE SanityNext(c, "vendor")
    [] c.stage = "vendor" ->
         IF VendorMatches(SanityVar(c.val, be), be) THEN Verdict(c, 1)
         ELSE SanityNext([c EXCEPT !.dev = @ + 1], "class")
    [] c.stage = "unlock" -> [c EXCEPT !.stage = "return"]
    [] OTHER -> c

\* Thread c is in a read or write sequence (a call of its own or a read of the
\* sanity check)
InXfer(c) == c.call \in {"read", "write"} \/ c.stage \in {"class", "vendor"}

DataPort(c) == IF c.mech = 1 THEN Conf1DataPort(c.req.pos) ELSE Conf2DataPort(c.req.d, c.req.pos)

\* The configuration byte the transfer of c is meant for
OwnLoc(c) == <<"cfg", CfgKey(c.req.d.bus, c.req.d.dev, c.req.d.func, c.req.pos)>>

IsPort(op) == op.k \in {"in", "out"}
IsProgram(c, op) == InXfer(c) /\ ~c.inside /\ op.k = "out" /\ op.port = PortCF8
IsTransfer(c, op) == InXfer(c) /\ IsPort(op) /\ op.port = DataPort(c)
IsClose(c, op) == InXfer(c) /\ c.inside /\ c.mech = 2 /\ op.k = "out" /\ op.port = PortCF8

\* Thread record c after its own step op, which took the backend from hw0 to
\* the context m1
Stepped(c, op, hw0, m1) ==
  [c EXCEPT !.todo = Tail(@),
            !.val = IF op.k = "in" THEN Got(m1) ELSE @,
            !.inside = IF IsProgram(c, op) THEN TRUE
                       ELSE IF IsClose(c, op) \/ (IsTransfer(c, op) /\ c.mech = 1) THEN FALSE
                       ELSE @,
            !.missed = @ \/ (IsTransfer(c, op) /\ PortLoc(hw0, op.port) # OwnLoc(c)),
            !.done = @ \/ (InXfer(c) /\ Tail(c.todo) = <<>>)]

\* ... and where its call goes on from there
Continue(c, be) ==
  IF c.todo # <<>> THEN c
  ELSE IF c.call = "detect" THEN Advance(c, be)
  ELSE Return(c)

\* Thread record c after the step op of another thread
Watched(c, op) == [c EXCEPT !.intruded = @ \/ (c.inside /\ IsPort(op))]

\* One primitive of the call thread t is in.  intel_io_lock waits while
\* another thread holds the lock.
CStep(t) ==
  /\ thr[t].todo # <<>>
  /\ t \notin m.hung
  /\ Head(thr[t].todo).k = "lock" => m.lock \in {0, t}
  /\ \E op \in {Head(thr[t].todo)} :
       \E m1 \in {Step(LastOnly(m), t, op)} :
         \E c \in {IF t \in m1.hung THEN thr[t]
                   ELSE Continue(Stepped(thr[t], op, m.hw, m1), m.cfg.bigEndian)} :
           /\ m' = m1
           /\ thr' = [u \in Threads |->
                        IF u = t THEN (IF c.stage = "return" THEN Return(c) ELSE c)
                        ELSE Watched(thr[u], op)]
           /\ sess' = IF c.stage = "return" /\ c.res # 0
                        THEN [sess EXCEPT ![t] = [st |-> "ACTIVE", mech |-> c.mech, rel |-> FALSE]]
                        ELSE sess
  /\ UNCHANGED <<conf12_io_enabled, plat, errorCalls, last, xfer>>

CanCall(t) == thr[t].call = "idle" /\ t \notin m.hung

\* Entry of conf1_detect/conf2_detect: the gate, then the probe's first sequence
CDetect(t, mech, stage, seq) ==
  /\ MayAcquire
  /\ sess[t].st = "UNPROBED"
  /\ \E grant \in {0, 1} :
       \E g1 \in {conf12_setup_io(Gate, grant)} :
         /\ conf12_io_enabled' = g1.en
         /\ plat' = g1.plat
         /\ thr' = [thr EXCEPT ![t] =
                      IF g1.en = 0 THEN @
                      ELSE [@ EXCEPT !.call = "detect", !.mech = mech, !.stage = stage,
                                     !.todo = seq]]
  /\ UNCHANGED <<m, errorCalls, sess, last, xfer>>

CConf1Detect(t) ==
  /\ CanCall(t)
  /\ CDetect(t, 1, "save", <<Lock, Out(1, W(1, 1), PortCFB), In(4, PortCF8)>>)

CConf2Detect(t) ==
  /\ CanCall(t)
  /\ CDetect(t, 2, "first", <<Lock, Out(1, W(0, 1), PortCFB), Out(1, W(0, 1), PortCF8),
                              Out(1, W(0, 1), PortCFA), In(1, PortCF8)>>)

CConf12Init(t) ==
  /\ CanCall(t) /\ MayAcquire
  /\ sess[t].st = "ACTIVE"
  /\ \E grant \in {0, 1} :
       \E r \in {conf12_init(Gate, grant)} :
         /\ conf12_io_enabled' = r.g.en
         /\ plat' = r.g.plat
         /\ errorCalls' = IF r.error THEN errorCalls + 1 ELSE errorCalls
         /\ sess' = [sess EXCEPT ![t].st = IF r.error THEN "FATAL" ELSE "READY"]
  /\ UNCHANGED <<m, last, xfer, thr>>

\* Entry of a sized read or write: a declined request returns at once
CXfer(t, mech, call, rq, declined, seq) ==
  /\ sess[t].st = "READY" /\ sess[t].mech = mech
  /\ thr' = [thr EXCEPT ![t] =
               IF declined THEN @
               ELSE [@ EXCEPT !.call = call, !.mech = mech, !.req = rq, !.todo = seq]]
  /\ UNCHANGED <<conf12_io_enabled, plat, m, errorCalls, sess, last, xfer>>

CConf1Read(t) ==
  /\ CanCall(t)
  /\ \E rq \in ConcReqs(t) :
       CXfer(t, 1, "read", rq, Conf1Rejects(rq.d, rq.pos), conf1_read_seq(rq.d, rq.pos, rq.len))

CConf1Write(t) ==
  /\ CanCall(t)
  /\ \E rq \in ConcReqs(t) :
       CXfer(t, 1, "write", rq, Conf1Rejects(rq.d, rq.pos),
             conf1_write_seq(rq.d, rq.pos, rq.buf, rq.len, m.cfg.bigEndian))

CConf2Read(t) ==
  /\ CanCall(t)
  /\ \E rq \in ConcReqs(t) :
       CXfer(t, 2, "read", rq, Conf2Rejects(rq.d, rq.pos), conf2_read_seq(rq.d, rq.pos, rq.len))

CConf2Write(t) ==
  /\ CanCall(t)
  /\ \E rq \in ConcReqs(t) :
       CXfer(t, 2, "write", rq, Conf2Rejects(rq.d, rq.pos),
             conf2_write_seq(rq.d, rq.pos, rq.buf, rq.len, m.cfg.bigEndian))

CNext ==
  \E t \in Threads :
    \/ CConf1Detect(t)
    \/ CConf2Detect(t)
    \/ CConf12Init(t)
    \/ CConf1Read(t)
    \/ CConf1Write(t)
    \/ CConf2Read(t)
    \/ CConf2Write(t)
    \/ CStep(t)

SpecConc == CInit /\ [][CNext]_vars

(***************************************************************************)
(* The permission gate (specification Spec).                               *)
(***************************************************************************)
\* The step is a call that goes through conf12_setup_io
AcquireStep == last'.op \in {"detect", "init"}

\* C1: an acquire() (conf12_setup_io, reached from conf1_detect, conf2_detect
\* and conf12_init) calls intel_setup_io only while the state is untried, once,
\* and records granted or denied; on a state already granted or denied it
\* leaves the state and the platform's call counters as they are.  Hence
\* between two releases the underlying acquisition runs at most once.
C1_AcquireMemoized ==
  [][AcquireStep =>
       IF conf12_io_enabled < 0
       THEN /\ plat'.setupCalls = plat.setupCalls + 1
            /\ conf12_io_enabled' \in {0, 1}
            /\ plat'.priv = (conf12_io_enabled' = 1)
       ELSE /\ conf12_io_enabled' = conf12_io_enabled
            /\ plat' = plat]_vars

\* C1 witness: an init after a detect, no release in between, one underlying call
C1_Witness ==
  /\ last.op = "init"
  /\ plat.setupCalls = 1
  /\ plat.cleanupCalls = 0
  /\ conf12_io_enabled = 1

\* C3: release() (conf12_cleanup) calls intel_cleanup_io only when the state
\* is granted and then sets it to untried; the acquire() that follows such a
\* release calls intel_setup_io again (the counter goes up by one).
C3_ReleaseThenReacquire ==
  [][/\ last'.op = "cleanup" =>
          IF conf12_io_enabled > 0
          THEN /\ plat'.cleanupCalls = plat.cleanupCalls + 1
               /\ plat'.setupCalls = plat.setupCalls
               /\ ~plat'.priv
               /\ conf12_io_enabled' = -1
          ELSE /\ plat' = plat
               /\ conf12_io_enabled' = conf12_io_enabled
     /\ (AcquireStep /\ last.op = "cleanup" /\ plat.cleanupCalls > 0 /\ conf12_io_enabled < 0) =>
          plat'.setupCalls = plat.setupCalls + 1]_vars

\* C3 witness: a second underlying acquisition, made right after a cleanup
\* that released the privilege an init had been granted
C3_Witness ==
  /\ last.op \in {"detect", "init"}
  /\ plat.setupCalls = 2
  /\ plat.cleanupCalls = 1

\* C4: once the state is denied, no call changes it, releases the privilege
\* or attempts the acquisition again.
C4_DeniedSticky ==
  [][conf12_io_enabled = 0 => (conf12_io_enabled' = 0 /\ plat' = plat)]_vars

\* C4 witness: a cleanup called while the state is denied
C4_Witness ==
  /\ last.op = "cleanup"
  /\ conf12_io_enabled = 0

\* C5: every port instruction a read or write issues is issued while the
\* state is granted, that is, while the I/O privilege is held.
C5_PortsOnlyWhileGranted ==
  (last.op \in {"read", "write"} /\ m.trace # <<>>) =>
    (conf12_io_enabled = 1 /\ plat.priv)

\* C6: conf12_init calls the error callback exactly when the gate is denied
\* after its acquire(); with the gate granted it calls none and the state
\* stays granted.
C6_InitErrorIffDenied ==
  [][last'.op = "init" =>
       /\ last'.error <=> (conf12_io_enabled' = 0)
       /\ errorCalls' = errorCalls + (IF conf12_io_enabled' = 0 THEN 1 ELSE 0)
       /\ conf12_io_enabled' \in {0, 1}
       /\ (conf12_io_enabled = 1 => conf12_io_enabled' = 1)]_vars

\* C6 witness: an init that found the gate denied and called the error callback
C6_Witness ==
  /\ last.op = "init"
  /\ last.error
  /\ errorCalls = 1
  /\ conf12_io_enabled = 0

(***************************************************************************)
(* Read and write (specification SpecXfer).                                *)
(***************************************************************************)
LastXfer == last.op \in {"read", "write"}

\* A request the mechanism declines: domain != 0, offset >= 256, or, for
\* Type 2, device >= 16
Unsupported(mech, rq) ==
  rq.d.domain # 0 \/ rq.pos >= 256 \/ (mech = 2 /\ rq.d.dev >= 16)

\* The buffer the call made last was handed
BufIn == IF last.op = "read" THEN ZeroBuf(Len(last.req.buf)) ELSE last.req.buf

\* C7: a read or write of an unsupported request returns 0 having issued no
\* port instruction, not taken the I/O lock, not called the block-transfer
\* helper and not modified the caller's buffer.
C7_UnsupportedNoEffect ==
  (LastXfer /\ Unsupported(last.mech, last.req)) =>
    /\ last.res = 0
    /\ m.trace = <<>>
    /\ m.nlock = 0 /\ m.lock = 0
    /\ m.nblock = 0
    /\ last.buf = BufIn
    /\ m.hw.regs = <<0, 0, 0, 0>> /\ m.hw.store = <<>>

\* C7 witness: a Type-2 read of device 16, domain 0, offset below 256, declined
C7_Witness ==
  /\ last.op = "read" /\ last.mech = 2
  /\ last.req.d.dev = 16 /\ last.req.d.domain = 0 /\ last.req.pos < 256
  /\ last.res = 0

\* C8: a sized read that directly follows a write of the same request through
\* the same mechanism returns the bytes just written.
C8_RoundTrip ==
  (/\ last.op = "read" /\ xfer.prev = "write"
   /\ ~Unsupported(last.mech, last.req)
   /\ last.req.len \in {1, 2, 4}) =>
    /\ last.res = 1
    /\ SubSeq(last.buf, 1, last.req.len) = SubSeq(last.req.buf, 1, last.req.len)

\* C8 witness: a 4-byte Type-2 read-back on a big-endian host, and the bytes
\* read are the pattern written
C8_Witness ==
  /\ last.op = "read" /\ xfer.prev = "write"
  /\ last.mech = 2 /\ last.req.len = 4 /\ last.req.pos = 255
  /\ m.cfg.bigEndian
  /\ last.buf = Pattern

\* The Type-1 address of the specification, digit by digit:
\* 0x80000000 | (bus << 16) | (device << 11) | (function << 8) | (offset & ~3)
Type1Address(bus, dev, func, pos) == <<pos - (pos % 4), dev * 8 + func, bus, 128>>

\* The call made last is a sized Type-1 transfer that was not declined
SizedType1 ==
  /\ LastXfer /\ last.mech = 1
  /\ ~Unsupported(1, last.req)
  /\ last.req.len \in {1, 2, 4}
  /\ last.req.d.bus \in 0..255 /\ last.req.d.dev \in 0..31 /\ last.req.d.func \in 0..7

\* C9: a sized Type-1 read or write issues exactly two port instructions: the
\* 32-bit write of the encoded address to 0xCF8, then the one transfer of its
\* length at 0xCFC + (offset & 3).
C9_Type1Codec ==
  SizedType1 =>
    /\ Len(m.trace) = 2
    /\ m.trace[1] = PortInstr(MainThread, "out", 4, 3320,
                              Type1Address(last.req.d.bus, last.req.d.dev,
                                           last.req.d.func, last.req.pos))
    /\ m.trace[2].port = 3324 + (last.req.pos % 4)
    /\ m.trace[2].w = last.req.len
    /\ m.trace[2].dir = (IF last.op = "read" THEN "in" ELSE "out")

\* C9 witness: a 2-byte Type-1 write at offset 255 of bus 255, device 31, function 7
C9_Witness ==
  /\ SizedType1 /\ last.op = "write"
  /\ last.req.d = Dev(0, 255, 31, 7) /\ last.req.pos = 255 /\ last.req.len = 2
  /\ m.trace[1].val = <<252, 255, 255, 128>>

\* The address a sized Type-1 transfer wrote to 0xCF8
AddressWritten == m.trace[1].val

\* C10 as stated: encode(bus=0, device=0, function=0, offset=0x10) is 0x80000000
C10_VectorAsStated ==
  (SizedType1 /\ last.req.d = Dev(0, 0, 0, 0) /\ last.req.pos = 16) =>
    AddressWritten = <<0, 0, 0, 128>>

\* C10 amended: encode(bus=0, device=0, function=0, offset=0x10) is 0x80000010
\* (the offset's bits 2..7 are part of the address), and with bus = 1 bit 16 of
\* the address is set.
C10_Vectors ==
  /\ (SizedType1 /\ last.req.d = Dev(0, 0, 0, 0) /\ last.req.pos = 16) =>
       AddressWritten = <<16, 0, 0, 128>>
  /\ (SizedType1 /\ last.req.d.bus = 1) => WBit(AddressWritten, 16) = 1

\* C10 witness: a sized Type-1 transfer at offset 0x10 of bus 1, device 0,
\* function 0 wrote 0x80010010 to the address port
C10_Witness ==
  /\ SizedType1
  /\ last.req.d = Dev(0, 1, 0, 0) /\ last.req.pos = 16
  /\ AddressWritten = <<16, 0, 1, 128>>

(***************************************************************************)
(* Concurrent port sequences (specification SpecConc).                     *)
(***************************************************************************)

\* C2: in every interleaving of threads running Type-1 and Type-2 reads,
\* writes and detect probes, no other thread issues a port instruction between
\* the programming step of a read or write and the end of its transfer, and
\* every transfer reaches the byte at the (bus, device, function, offset) its
\* own operation programmed.
C2_SequencesAtomic ==
  \A t \in Threads : ~thr[t].intruded /\ ~thr[t].missed

\* Two threads have each completed a read or write while the other was inside
\* a call of its own: one is past a sequence and inside the next, the other is
\* waiting for the lock with a sequence behind it.
C2_Witness ==
  \E t, u \in Threads :
    /\ t # u
    /\ thr[t].done /\ thr[t].inside
    /\ thr[u].done /\ thr[u].call \in {"read", "write"}
    /\ thr[u].todo # <<>> /\ Head(thr[u].todo).k = "lock"
    /\ thr[t].mech # thr[u].mech

\* The call made last is a sized Type-2 transfer that was not declined
SizedType2 ==
  /\ LastXfer /\ last.mech = 2
  /\ ~Unsupported(2, last.req)
  /\ last.req.len \in {1, 2, 4}

\* C11: a sized Type-2 read or write that is not declined issues, inside one
\* critical section, exactly four port instructions: the byte
\* (function << 1) | 0xF0 to 0xCF8, the bus number to 0xCFA, the one transfer
\* of its length at 0xC000 | (device << 8) | offset, and the byte 0 to 0xCF8;
\* on return the command register holds 0 and the lock is free.
C11_Type2Window ==
  SizedType2 =>
    /\ Len(m.trace) = 4
    /\ m.trace[1] = PortInstr(MainThread, "out", 1, 3320, <<last.req.d.func * 2 + 240>>)
    /\ m.trace[2] = PortInstr(MainThread, "out", 1, 3322, <<last.req.d.bus>>)
    /\ m.trace[3].port = 49152 + last.req.d.dev * 256 + last.req.pos
    /\ m.trace[3].w = last.req.len
    /\ m.trace[3].dir = (IF last.op = "read" THEN "in" ELSE "out")
    /\ m.trace[4] = PortInstr(MainThread, "out", 1, 3320, <<0>>)
    /\ m.nlock = 1 /\ m.lock = 0 /\ m.depth = 0
    /\ m.hw.regs[1] = 0
    /\ last.res = 1

\* C11 witness: a 2-byte Type-2 read of device 15, function 3, bus 2 at offset 254
C11_Witness ==
  /\ SizedType2 /\ last.op = "read"
  /\ last.req.d = Dev(0, 2, 15, 3) /\ last.req.pos = 254 /\ last.req.len = 2
  /\ m.trace[3].port = 53246
  /\ m.hw.regs[1] = 0

(***************************************************************************)
(* Specification SpecSanity: intel_sanity_check is run once, with the read *)
(* operation of one mechanism, on a machine drawn at the start.            *)
(***************************************************************************)
OtherClass == 512
OtherVendor == 4660

\* What one populated slot can report: (class, vendor)
SlotKinds ==
  {<<PCI_CLASS_BRIDGE_HOST, OtherVendor>>, <<PCI_CLASS_DISPLAY_VGA, OtherVendor>>,
   <<OtherClass, PCI_VENDOR_ID_INTEL>>, <<OtherClass, PCI_VENDOR_ID_COMPAQ>>,
   <<OtherClass, OtherVendor>>}

\* Bus 0 with one populated slot, with none, and with two populated slots
SanityProfiles ==
  {{Slot(n, k[1], k[2])} : n \in 0..31, k \in SlotKinds} \cup {EmptyBus} \cup
  {{Slot(3, OtherClass, PCI_VENDOR_ID_INTEL), Slot(n, PCI_CLASS_BRIDGE_HOST, OtherVendor)} :
     n \in {2, 5, 17}}

SanityCfgs ==
  {Cfg(TRUE, p, FALSE, be) : p \in SanityProfiles, be \in BOOLEAN} \cup
  {Cfg(FALSE, BridgeAt0, FALSE, FALSE)}

SInit ==
  /\ conf12_io_enabled = 1
  /\ plat = [setupCalls |-> 1, grants |-> 1, cleanupCalls |-> 0, priv |-> TRUE]
  /\ \E cfg \in SanityCfgs : m = Machine(cfg, <<0, 0, 0, 0>>)
  /\ errorCalls = 0
  /\ sess = [s \in Sessions |-> [st |-> "UNPROBED", mech |-> 0, rel |-> FALSE]]
  /\ last = NoCall
  /\ xfer = NoXfer
  /\ thr = <<>>

\* The call of intel_sanity_check: last.req.d is its struct pci_dev d on return
SanityDone(mech, r) ==
  /\ m' = r.m
  /\ last' = Call(1, "sanity", mech, r.res, FALSE,
                  Req(Dev(0, 0, r.dev, 0), 0, 2, <<>>), <<>>)
  /\ UNCHANGED <<conf12_io_enabled, plat, errorCalls, sess, xfer, thr>>

SanityConf1 ==
  /\ last.op = "none"
  /\ \E r \in {intel_sanity_check(1, Fresh(m), MainThread)} : SanityDone(1, r)

SanityConf2 ==
  /\ last.op = "none"
  /\ \E r \in {intel_sanity_check(2, Fresh(m), MainThread)} : SanityDone(2, r)

SNext == SanityConf1 \/ SanityConf2

SpecSanity == SInit /\ [][SNext]_vars

(***************************************************************************)
(* The sanity check (specification SpecSanity).                            *)
(***************************************************************************)
\* Slot n of bus 0 reports a class or a vendor the check looks for, through
\* the read operation of mechanism mech (Type 2 reaches the slots 0..15)
SlotReports(mech, n) ==
  /\ m.cfg.present
  /\ mech = 2 => n < 16
  /\ \/ SlotOf(m.cfg.profile, n).class \in {1536, 768}
     \/ SlotOf(m.cfg.profile, n).vendor \in {32902, 3601}

ClassReports(n) == SlotOf(m.cfg.profile, n).class \in {1536, 768}

\* Port instructions of one read of the mechanism
ReadCost(mech) == IF mech = 1 THEN 2 ELSE 4

\* C12: intel_sanity_check returns sane exactly when some slot 0..31 of bus 0
\* reports, through the given read operation, a host-bridge or VGA class or
\* the vendor Intel or Compaq; it stops at the first such slot (no read is
\* issued after the one that matched), and otherwise has read all the slots.
C12_SanityVerdict ==
  last.op = "sanity" =>
    /\ last.res = 1 <=> \E n \in 0..31 : SlotReports(last.mech, n)
    /\ last.res = 1 =>
         /\ SlotReports(last.mech, last.req.d.dev)
         /\ \A n \in 0..(last.req.d.dev - 1) : ~SlotReports(last.mech, n)
         /\ Len(m.trace) = ReadCost(last.mech) *
              (2 * last.req.d.dev + (IF ClassReports(last.req.d.dev) THEN 1 ELSE 2))
    /\ last.res = 0 =>
         /\ last.req.d.dev = 32
         /\ Len(m.trace) = ReadCost(last.mech) * 2 * (IF last.mech = 1 THEN 32 ELSE 16)

\* C12 witness: sane on the vendor 0x8086 in slot 0 (class read, then vendor read)
C12_Witness ==
  /\ last.op = "sanity" /\ last.res = 1 /\ last.mech = 1
  /\ m.cfg.profile = {Slot(0, OtherClass, PCI_VENDOR_ID_INTEL)}
  /\ last.req.d.dev = 0
  /\ Len(m.trace) = 4

\* C12 witness: insane on a bus whose 32 slots all report 0xFFFF
C12_WitnessInsane ==
  /\ last.op = "sanity" /\ last.res = 0 /\ last.mech = 1
  /\ m.cfg.profile = EmptyBus /\ m.cfg.present
  /\ Len(m.trace) = 128

(***************************************************************************)
(* The detect handlers (specification Spec).                               *)
(***************************************************************************)
\* The call made last is a conf1_detect that found the gate granted
Conf1Probed == last.op = "detect" /\ last.mech = 1 /\ m.trace # <<>>

\* C13: with the gate granted, conf1_detect first saves the address register
\* 0xCF8, then writes the reset byte to 0xCFB, writes the sentinel 0x80000000
\* to 0xCF8, reads it back, writes the saved value back, and only then runs
\* the sanity check, whose verdict is the result; after a readback other than
\* the sentinel nothing more is read and the result is 0.
C13_ProbeOrder ==
  Conf1Probed =>
    /\ Len(m.trace) >= 5
    /\ m.trace[1].dir = "in" /\ m.trace[1].port = 3320 /\ m.trace[1].w = 4
    /\ m.trace[2] = PortInstr(MainThread, "out", 1, 3323, <<1>>)
    /\ m.trace[3] = PortInstr(MainThread, "out", 4, 3320, <<0, 0, 0, 128>>)
    /\ m.trace[4].dir = "in" /\ m.trace[4].port = 3320 /\ m.trace[4].w = 4
    /\ m.trace[5] = PortInstr(MainThread, "out", 4, 3320, m.trace[1].val)
    /\ m.trace[4].val # <<0, 0, 0, 128>> => (Len(m.trace) = 5 /\ last.res = 0)

\* What conf1_detect does instead: the reset byte goes to 0xCFB before the
\* address register is saved; the rest is as stated
C13_ProbeOrderOfCode ==
  Conf1Probed =>
    /\ Len(m.trace) >= 5
    /\ m.trace[1] = PortInstr(MainThread, "out", 1, 3323, <<1>>)
    /\ m.trace[2].dir = "in" /\ m.trace[2].port = 3320 /\ m.trace[2].w = 4
    /\ m.trace[3] = PortInstr(MainThread, "out", 4, 3320, <<0, 0, 0, 128>>)
    /\ m.trace[4].dir = "in" /\ m.trace[4].port = 3320 /\ m.trace[4].w = 4
    /\ m.trace[5] = PortInstr(MainThread, "out", 4, 3320, m.trace[2].val)
    /\ m.trace[4].val # <<0, 0, 0, 128>> => (Len(m.trace) = 5 /\ last.res = 0)
    /\ m.trace[4].val = <<0, 0, 0, 128>> => Len(m.trace) > 5

\* C14: with an ordinary (non-reentrant) I/O lock no call blocks for ever: no
\* handler acquires the lock while its own thread holds it.
C14_NoSelfRelock == ~m.cfg.reentrant => m.hung = {}

\* C20: conf1_detect leaves the address register 0xCF8..0xCFB as it found it.
C20_Conf1DetectRestores ==
  [][(last'.op = "detect" /\ last'.mech = 1) => m'.hw.regs = m.hw.regs]_vars

(***************************************************************************)
(* Byte order and window (specification SpecXfer).                         *)
(***************************************************************************)
\* The call made last is a sized transfer that was not declined
SizedXfer == SizedType1 \/ SizedType2

\* The port instruction that is its data transfer
DataInstr == m.trace[IF last.mech = 1 THEN 2 ELSE 3]

\* C15: a sized write puts the buffer's bytes on the data port least
\* significant first (the word 0x1234 for the buffer bytes 0x34, 0x12: 0x34 at
\* the lowest port), and a sized read stores the bytes of the data port in
\* the buffer in that order, on a little-endian and on a big-endian host.
C15_WireOrder ==
  SizedXfer =>
    /\ last.op = "write" => DataInstr.val = SubSeq(last.req.buf, 1, last.req.len)
    /\ last.op = "read" => SubSeq(last.buf, 1, last.req.len) = DataInstr.val
    /\ (last.op = "write" /\ last.req.len = 2) => DataInstr.val = <<52, 18>>
    /\ (last.op = "read" /\ xfer.prev = "write" /\ last.req.len = 2) =>
         (DataInstr.val = <<52, 18>> /\ SubSeq(last.buf, 1, 2) = <<52, 18>>)

\* C15 witness: on a big-endian host a 2-byte Type-1 read returns the bytes
\* 0x34, 0x12 the write before it put on the data port
C15_Witness ==
  /\ SizedType1 /\ last.op = "read" /\ xfer.prev = "write"
  /\ last.req.len = 2 /\ m.cfg.bigEndian
  /\ DataInstr.val = <<52, 18>>
  /\ SubSeq(last.buf, 1, 2) = <<52, 18>>

\* C18: a sized transfer that is not declined touches only the ports of its
\* own window: for Type 1 the ports 0xCFC..0xCFF ((offset & 3) + length <= 4),
\* for Type 2 the ports 0xC000 | (device << 8) .. 0xC0FF | (device << 8); the
\* bytes offset..offset+length-1 lie within the device's first 256 bytes.
C18_InsideWindow ==
  SizedXfer =>
    /\ last.req.pos + last.req.len <= 256
    /\ last.mech = 1 =>
         /\ DataInstr.port >= 3324
         /\ DataInstr.port + DataInstr.w - 1 <= 3327
    /\ last.mech = 2 =>
         /\ DataInstr.port >= 49152 + last.req.d.dev * 256
         /\ DataInstr.port + DataInstr.w - 1 <= 49152 + last.req.d.dev * 256 + 255

\* What holds of every sized transfer: it starts inside its window, at the
\* port of its offset
C18_StartsInsideWindow ==
  SizedXfer =>
    /\ last.mech = 1 => DataInstr.port \in 3324..3327
    /\ last.mech = 2 =>
         DataInstr.port \in (49152 + last.req.d.dev * 256)..(49152 + last.req.d.dev * 256 + 255)

(***************************************************************************)
(* Detect, init and the gate (specification Spec).                         *)
(***************************************************************************)
\* C16: a conf1_detect or conf2_detect whose acquire() yields denied returns 0
\* having issued no port instruction, not taken the I/O lock (so not run the
\* sanity check) and not called the error callback; when the denial was
\* already recorded, it makes no call of intel_setup_io.
C16_DetectDenied ==
  [][(last'.op = "detect" /\ conf12_io_enabled' = 0) =>
       /\ last'.res = 0
       /\ m'.trace = <<>> /\ m'.nlock = 0
       /\ m'.hw = m.hw /\ m'.lock = m.lock
       /\ errorCalls' = errorCalls
       /\ sess' = sess
       /\ IF conf12_io_enabled = 0 THEN plat' = plat
          ELSE plat'.setupCalls = plat.setupCalls + 1]_vars

\* C16 witness: a conf2_detect under a denial recorded earlier, by the init
\* that left another session FATAL
C16_Witness ==
  /\ last.op = "detect" /\ last.mech = 2 /\ last.res = 0
  /\ conf12_io_enabled = 0
  /\ m.trace = <<>>
  /\ \E s \in Sessions : s # last.s /\ sess[s].st = "FATAL"

\* C17: the I/O privilege is held exactly while the state is granted; the
\* calls of intel_cleanup_io never outnumber the successful calls of
\* intel_setup_io, and fall short of them by one while granted, by none
\* otherwise.
C17_PrivilegeIffGranted ==
  /\ plat.priv <=> (conf12_io_enabled = 1)
  /\ plat.cleanupCalls <= plat.grants
  /\ plat.grants - plat.cleanupCalls = (IF conf12_io_enabled = 1 THEN 1 ELSE 0)

\* C17 witness: granted a second time, after one release
C17_Witness ==
  /\ conf12_io_enabled = 1 /\ plat.priv
  /\ plat.grants = 2 /\ plat.cleanupCalls = 1

\* C19: the conf12_init of a session whose detect returned present, with no
\* conf12_cleanup called since, makes no call of intel_setup_io and no call of
\* the error callback, and the session is READY; so a session is FATAL only
\* if a cleanup was called between its detect and its init.
C19_InitAfterDetect ==
  /\ [][(last'.op = "init" /\ ~sess[last'.s].rel) =>
          /\ plat' = plat
          /\ ~last'.error /\ errorCalls' = errorCalls
          /\ conf12_io_enabled = 1 /\ conf12_io_enabled' = 1
          /\ sess'[last'.s].st = "READY"]_vars
  /\ [](\A s \in Sessions : sess[s].st = "FATAL" => sess[s].rel)

\* C19 witness: an init right after the session's own detect, while the other
\* session has been through detect, init and cleanup before
C19_Witness ==
  /\ last.op = "init" /\ ~last.error
  /\ sess[last.s].st = "READY" /\ ~sess[last.s].rel
  /\ plat.setupCalls = 2 /\ plat.cleanupCalls = 1

\* The transition ACTIVE, init, gate denies is reachable, after a cleanup
C19_FatalAfterCleanup ==
  /\ last.op = "init" /\ last.error
  /\ sess[last.s].st = "FATAL" /\ sess[last.s].rel


====
